---- MODULE Spec2Model ----
(***************************************************************************)
(* A model of the Genius lyrics scraper actor                              *)
(* (genius_free_lyrics_for_apifiy.py) and of the album pipeline that calls *)
(* it (main.py).                                                           *)
(*                                                                         *)
(* Text is a sequence of one-character strings; "EN" stands for the        *)
(* en-dash U+2013.  Python's None is the one-token sequence <<"None">>,    *)
(* which no text equals.  A URL is a sequence of tokens (scheme, host,     *)
(* path pieces), which is as fine as LYRICS_URL_RE distinguishes.          *)
(***************************************************************************)
EXTENDS Integers, Sequences, FiniteSets, TLC

VARIABLES
    pc,             \* position in main() / build_agent_output()
    raised,         \* the exception that left the function, "" when none did
    search_query,   \* main(): search_query
    max_songs,      \* main(): max_songs
    proxy_url,      \* main(): proxy_url
    search_html,    \* main(): search_html (a parsed page: a sequence of anchors)
    candidates,     \* main(): candidates
    ci,             \* main(): number of candidates the for loop has finished
    sink,           \* the records pushed with Actor.push_data, in order
    gets,           \* the outcome of every requests.get issued, in order
    agent_artist,   \* build_agent_output(): artist_name
    album_info,     \* build_agent_output(): album_info
    ti,             \* build_agent_output(): number of tracks the for loop has finished
    lyrics_results, \* build_agent_output(): lyrics_results
    actor_calls,    \* the outcome of every call_apify_actor(GENIUS_ACTOR_ID, ...)
    report          \* what build_agent_output() returned

vars == <<pc, raised, search_query, max_songs, proxy_url, search_html,
          candidates, ci, sink, gets, agent_artist, album_info, ti, lyrics_results,
          actor_calls, report>>

scraperVars == <<search_query, max_songs, proxy_url, search_html,
                 candidates, ci, sink, gets>>

agentVars == <<agent_artist, album_info, ti, lyrics_results, actor_calls, report>>

None == <<"None">>

----------------------------------------------------------------------------
(* Bounds of the model *)

MaxNodes == 3       \* child elements of the one anchor of a detailed page
MaxAnchors == 3     \* anchors of a search page
MaxSongs == 2       \* largest maxSongs of the actor input
MaxTracks == 3      \* tracks of an album

----------------------------------------------------------------------------
(* Python str and bs4 get_text *)

Whitespace == {" ", "\n"}

RECURSIVE lstrip(_)
lstrip(s) == IF s # <<>> /\ Head(s) \in Whitespace THEN lstrip(Tail(s)) ELSE s

RECURSIVE rstrip(_)
rstrip(s) ==
    IF s # <<>> /\ s[Len(s)] \in Whitespace
    THEN rstrip(SubSeq(s, 1, Len(s) - 1))
    ELSE s

strip(s) == rstrip(lstrip(s))

\* text.find(sep) + 1: the first place sep occurs in text, 0 when it does not
find(text, sep) ==
    LET at == {i \in 1..(Len(text) - Len(sep) + 1) :
                   SubSeq(text, i, i + Len(sep) - 1) = sep}
    IN  IF at = {} THEN 0 ELSE CHOOSE i \in at : \A j \in at : i <= j

\* sep in text
contains(text, sep) == find(text, sep) # 0

\* text.split(sep, 1), for a text that holds sep
split1(text, sep) ==
    LET i == find(text, sep)
    IN  <<SubSeq(text, 1, i - 1), SubSeq(text, i + Len(sep), Len(text))>>

RECURSIVE join(_, _)
join(strs, separator) ==
    IF strs = <<>> THEN <<>>
    ELSE IF Len(strs) = 1 THEN strs[1]
    ELSE strs[1] \o separator \o join(Tail(strs), separator)

NonEmpty(s) == s # <<>>

\* Tag.get_text(separator, strip=True) over the text nodes strs of the tag:
\* every string is stripped, the empty ones are dropped, the rest joined
get_text(strs, separator) ==
    join(SelectSeq([i \in 1..Len(strs) |-> strip(strs[i])], NonEmpty), separator)

EnDashSep == <<" ", "EN", " ">>
HyphenSep == <<" ", "-", " ">>

----------------------------------------------------------------------------
(* LYRICS_URL_RE = ^https?://genius\.com/.+-lyrics/?$ on a tokenised URL *)

LYRICS_URL_RE_match(url) ==
    LET n == Len(url)
    IN  /\ n >= 2
        /\ url[1] \in {"http://", "https://"}
        /\ url[2] = "genius.com/"
        /\ \/ n >= 4 /\ url[n] = "-lyrics"
           \/ n >= 5 /\ url[n] = "/" /\ url[n - 1] = "-lyrics"

----------------------------------------------------------------------------
(* parse_search_results *)

\* The text nodes under an anchor, in document order
strings(a) == [i \in 1..Len(a.children) |-> a.children[i].text]

\* a.select_one("." + class): <<>> for None, else <<the first such child>>
select_one(a, class) ==
    LET at == {i \in 1..Len(a.children) : a.children[i].class = class}
    IN  IF at = {} THEN <<>>
        ELSE <<a.children[CHOOSE i \in at : \A j \in at : i <= j]>>

\* soup.select("a.mini_card")
select_mini_card(html) ==
    LET IsMini(a) == a.class = "mini_card" IN SelectSeq(html, IsMini)

\* soup.find_all("a", href=True)
find_all_a_href(html) ==
    LET HasHref(a) == a.href # None IN SelectSeq(html, HasHref)

\* mini_card_candidate without the "if not song_title: continue" of line 69
mini_card_candidate_keeps_empty(a, url) ==
    LET title_el == select_one(a, "mini_card-title")
        artist_el == select_one(a, "mini_card-subtitle")
        title0 == IF title_el # <<>> THEN get_text(<<title_el[1].text>>, <<>>) ELSE <<>>
        artist0 == IF artist_el # <<>> THEN get_text(<<artist_el[1].text>>, <<>>) ELSE <<>>
        text == get_text(strings(a), <<" ">>)
        song_title ==
            IF title0 # <<>> THEN title0
            ELSE IF contains(text, EnDashSep) THEN split1(text, EnDashSep)[1]
            ELSE IF contains(text, HyphenSep) THEN split1(text, HyphenSep)[1]
            ELSE text
        artist_name ==
            IF title0 # <<>> THEN artist0
            ELSE IF contains(text, EnDashSep) THEN split1(text, EnDashSep)[2]
            ELSE IF contains(text, HyphenSep) THEN split1(text, HyphenSep)[2]
            ELSE artist0
    IN  <<[url |-> url,
           song_title |-> strip(song_title),
           artist_name |-> strip(artist_name)]>>

\* mini_card_candidate with the hyphen tried before the en-dash
mini_card_candidate_hyphen_first(a, url) ==
    LET title_el == select_one(a, "mini_card-title")
        artist_el == select_one(a, "mini_card-subtitle")
        title0 == IF title_el # <<>> THEN get_text(<<title_el[1].text>>, <<>>) ELSE <<>>
        artist0 == IF artist_el # <<>> THEN get_text(<<artist_el[1].text>>, <<>>) ELSE <<>>
        text == get_text(strings(a), <<" ">>)
        song_title ==
            IF title0 # <<>> THEN title0
            ELSE IF contains(text, HyphenSep) THEN split1(text, HyphenSep)[1]
            ELSE IF contains(text, EnDashSep) THEN split1(text, EnDashSep)[1]
            ELSE text
        artist_name ==
            IF title0 # <<>> THEN artist0
            ELSE IF contains(text, HyphenSep) THEN split1(text, HyphenSep)[2]
            ELSE IF contains(text, EnDashSep) THEN split1(text, EnDashSep)[2]
            ELSE artist0
    IN  IF song_title = <<>> THEN <<>>
        ELSE <<[url |-> url,
                song_title |-> strip(song_title),
                artist_name |-> strip(artist_name)]>>

\* Lines 53-78: the candidate of one mini-card anchor whose href matched;
\* <<>> when the anchor is passed over (continue), else <<candidate>>
mini_card_candidate(a, url) ==
    LET title_el == select_one(a, "mini_card-title")
        artist_el == select_one(a, "mini_card-subtitle")
        title0 == IF title_el # <<>> THEN get_text(<<title_el[1].text>>, <<>>) ELSE <<>>
        artist0 == IF artist_el # <<>> THEN get_text(<<artist_el[1].text>>, <<>>) ELSE <<>>
        text == get_text(strings(a), <<" ">>)
        song_title ==
            IF title0 # <<>> THEN title0
            ELSE IF contains(text, EnDashSep) THEN split1(text, EnDashSep)[1]
            ELSE IF contains(text, HyphenSep) THEN split1(text, HyphenSep)[1]
            ELSE text
        artist_name ==
            IF title0 # <<>> THEN artist0
            ELSE IF contains(text, EnDashSep) THEN split1(text, EnDashSep)[2]
            ELSE IF contains(text, HyphenSep) THEN split1(text, HyphenSep)[2]
            ELSE artist0
    IN  IF song_title = <<>> THEN <<>>
        ELSE <<[url |-> url,
                song_title |-> strip(song_title),
                artist_name |-> strip(artist_name)]>>

\* mini_card_loop with "len(results) > max_songs" for the test of line 46
RECURSIVE mini_card_loop_off_by_one(_, _, _)
mini_card_loop_off_by_one(anchors, results, max) ==
    IF anchors = <<>> \/ Len(results) > max THEN results
    ELSE LET a == Head(anchors)
             url == IF a.href # None /\ a.href # <<>> THEN a.href ELSE <<>>
         IN  IF ~LYRICS_URL_RE_match(url)
             THEN mini_card_loop_off_by_one(Tail(anchors), results, max)
             ELSE mini_card_loop_off_by_one(Tail(anchors),
                                 results \o mini_card_candidate(a, url), max)

\* Lines 45-78: the loop over the mini-card anchors
RECURSIVE mini_card_loop(_, _, _)
mini_card_loop(anchors, results, max) ==
    IF anchors = <<>> \/ Len(results) >= max THEN results
    ELSE LET a == Head(anchors)
             url == IF a.href # None /\ a.href # <<>> THEN a.href ELSE <<>>
         IN  IF ~LYRICS_URL_RE_match(url)
             THEN mini_card_loop(Tail(anchors), results, max)
             ELSE mini_card_loop(Tail(anchors),
                                 results \o mini_card_candidate(a, url), max)

\* Lines 90-108: the candidate of one anchor of the fallback layout
fallback_candidate(a, url) ==
    LET text == get_text(strings(a), <<" ">>)
        song_title ==
            IF contains(text, EnDashSep) THEN split1(text, EnDashSep)[1]
            ELSE IF contains(text, HyphenSep) THEN split1(text, HyphenSep)[1]
            ELSE text
        artist_name ==
            IF contains(text, EnDashSep) THEN split1(text, EnDashSep)[2]
            ELSE IF contains(text, HyphenSep) THEN split1(text, HyphenSep)[2]
            ELSE <<>>
    IN  IF text = <<>> THEN <<>>
        ELSE <<[url |-> url,
                song_title |-> strip(song_title),
                artist_name |-> strip(artist_name)]>>

\* Lines 82-108: the loop over every anchor with an href
RECURSIVE fallback_loop(_, _, _)
fallback_loop(anchors, results, max) ==
    IF anchors = <<>> \/ Len(results) >= max THEN results
    ELSE LET a == Head(anchors)
             url == a.href
         IN  IF ~LYRICS_URL_RE_match(url)
             THEN fallback_loop(Tail(anchors), results, max)
             ELSE fallback_loop(Tail(anchors),
                                results \o fallback_candidate(a, url), max)

parse_search_results(html, max) ==
    LET results == mini_card_loop(select_mini_card(html), <<>>, max)
    IN  IF results = <<>>
        THEN fallback_loop(find_all_a_href(html), <<>>, max)
        ELSE results

----------------------------------------------------------------------------
(* parse_lyrics *)

\* A lyric page: the text nodes of each div[data-lyrics-container="true"], and
\* of the first .lyrics element (<<>> when the page has none, else <<nodes>>)
parse_lyrics(html) ==
    LET blocks == [i \in 1..Len(html.containers) |->
                       get_text(html.containers[i], <<"\n">>)]
        text == join(SelectSeq(blocks, NonEmpty), <<"\n", "\n">>)
        old == html.lyrics
        text2 == IF text = <<>> /\ old # <<>> THEN get_text(old[1], <<"\n">>) ELSE text
    IN  strip(text2)

----------------------------------------------------------------------------
(* The actor input and the network, as main() meets them *)

Query == <<"a", " ", "b">>

\* A value of the input's maxSongs key
MaxSongsValues ==
    {[type |-> "absent"], [type |-> "NoneType"]}
    \cup {[type |-> "int", val |-> n] : n \in -1..MaxSongs}
    \cup {[type |-> "str", val |-> s] : s \in {<<>>, <<"2">>, <<"a">>}}

\* Actor.get_input() or {}: a missing searchQuery reads as None
ActorInputs ==
    {[searchQuery |-> q, maxSongs |-> m] :
        q \in {None, <<>>, Query}, m \in MaxSongsValues}

Digit(c) ==
    CASE c = "0" -> 0 [] c = "1" -> 1 [] c = "2" -> 2 [] c = "3" -> 3
      [] c = "4" -> 4 [] c = "5" -> 5 [] c = "6" -> 6 [] c = "7" -> 7
      [] c = "8" -> 8 [] c = "9" -> 9 [] OTHER -> -1

RECURSIVE int_of_digits(_, _)
int_of_digits(s, acc) ==
    IF s = <<>> THEN acc ELSE int_of_digits(Tail(s), 10 * acc + Digit(Head(s)))

\* actor_input.get("maxSongs", 1) or 1
max_songs_or_1(m) ==
    IF \/ m.type \in {"absent", "NoneType"}
       \/ m.type = "int" /\ m.val = 0
       \/ m.type = "str" /\ m.val = <<>>
    THEN [type |-> "int", val |-> 1]
    ELSE m

\* int(v) raises ValueError on a string that is no number
int_raises(v) ==
    v.type = "str" /\ (strip(v.val) = <<>> \/ \E i \in 1..Len(strip(v.val)) : Digit(strip(v.val)[i]) < 0)

int(v) == IF v.type = "int" THEN v.val ELSE int_of_digits(strip(v.val), 0)

\* urllib.parse.quote_plus on the characters of the model
quote_plus(s) ==
    [i \in 1..Len(s) |->
        CASE s[i] = " " -> "+"
          [] s[i] = "EN" -> "%E2%80%93"
          [] s[i] = "\n" -> "%0A"
          [] OTHER -> s[i]]

search_url_of(query) == <<"https://", "genius.com/", "search?q=">> \o quote_plus(query)

ProxyUrl == <<"http://", "proxy.apify.com:8000">>

\* What Actor.create_proxy_configuration() and proxy_cfg.new_url() can do
ProxyOutcomes == {"cfg_raises", "cfg_none", "new_url_raises", "new_url_none", "new_url"}

StatusCodes == {200, 403, 404, 500}

\* What requests.get(url, timeout=30) can do: a response, or no response
NoResponse == {"Timeout", "ConnectionError"}

Responses(pages) ==
    {[kind |-> "response", status_code |-> s, text |-> p] :
        s \in StatusCodes, p \in pages}
    \cup {[kind |-> k, status_code |-> 0, text |-> <<>>] : k \in NoResponse}

\* Response.raise_for_status(): HTTPError on a 4xx or 5xx status
raise_for_status(resp) == 400 <= resp.status_code /\ resp.status_code < 600

\* fetch_html_sync: the exception it raises ("" when it returns resp.text)
fetch_html_sync(resp) ==
    IF resp.kind # "response" THEN resp.kind
    ELSE IF raise_for_status(resp) THEN "HTTPError"
    ELSE ""

py_str(n) == ToString(n)

Record(q, title, artist, url, lyrics, error) ==
    [searchQuery |-> q, songTitle |-> title, artistName |-> artist,
     url |-> url, lyricsText |-> lyrics, error |-> error]

\* Lines 171-180
search_failure_record(query, url, status) ==
    Record(query, None, None, url, <<>>,
           <<"Failed to fetch search page (status=", py_str(status), ")">>)

\* Lines 187-196
no_candidates_record(query, url) ==
    Record(query, None, None, url, <<>>,
           <<"No candidates found on Genius search page">>)

\* song_record with the body of the error response parsed for lyrics
song_record_keeps_body(query, c, resp) ==
    IF fetch_html_sync(resp) = "HTTPError"
    THEN Record(query, c.song_title, c.artist_name, c.url, parse_lyrics(resp.text),
                <<"Failed to fetch song page (status=", py_str(resp.status_code), ")">>)
    ELSE Record(query, c.song_title, c.artist_name, c.url,
                parse_lyrics(resp.text), None)

\* Lines 203-224: the record of candidate c, whose page fetch returned or
\* raised HTTPError
song_record(query, c, resp) ==
    IF fetch_html_sync(resp) = "HTTPError"
    THEN Record(query, c.song_title, c.artist_name, c.url, <<>>,
                <<"Failed to fetch song page (status=", py_str(resp.status_code), ")">>)
    ELSE Record(query, c.song_title, c.artist_name, c.url,
                parse_lyrics(resp.text), None)

Get(url, resp) ==
    [url |-> url,
     kind |-> IF fetch_html_sync(resp) = "" THEN "ok" ELSE fetch_html_sync(resp),
     status_code |-> resp.status_code]

----------------------------------------------------------------------------
(* The pages of the model *)

Url1 == <<"https://", "genius.com/", "Queen-bohemian-rhapsody", "-lyrics">>
Url2 == <<"http://", "genius.com/", "Queen-bohemian-rhapsody-live", "-lyrics", "/">>
Url3 == <<"https://", "genius.com/", "Panic-at-the-disco-bohemian-rhapsody", "-lyrics">>
Url4 == <<"https://", "genius.com/", "Queen-somebody-to-love", "-lyrics">>
Url5 == <<"https://", "genius.com/", "Queen-killer-queen", "-lyrics">>
ArtistUrl == <<"https://", "genius.com/", "artists/", "Queen">>
NoSlugUrl == <<"https://", "genius.com/", "-lyrics">>

Node(class, text) == [class |-> class, text |-> text]
Anchor(class, href, children) == [class |-> class, href |-> href, children |-> children]

TextSamples ==
    { <<" ">>, <<"a">>, <<" ", "b", " ">>, <<"EN">>, <<"-">>,
      <<"a", " ", " ", "EN", " ", "b">> }

NodeClasses == {"mini_card-title", "mini_card-subtitle", ""}

Nodes == {Node(c, t) : c \in NodeClasses, t \in TextSamples}

SeqsUpTo(S, n) == UNION {[1..k -> S] : k \in 0..n}

\* Pages of one anchor, whose children are varied in full
DetailedPages ==
    {<<Anchor(c, h, ch)>> :
        c \in {"mini_card", ""}, h \in {Url1, ArtistUrl}, ch \in SeqsUpTo(Nodes, MaxNodes)}

\* Anchors a page of several anchors is built from
ListAnchors ==
    { Anchor("mini_card", Url1,
             <<Node("mini_card-title", <<"a">>), Node("mini_card-subtitle", <<"b">>)>>),
      Anchor("mini_card", Url2, <<>>),
      Anchor("mini_card", ArtistUrl, <<Node("mini_card-title", <<"a">>)>>),
      Anchor("mini_card", Url5, <<Node("", <<"a", " ", "-", " ", "b">>)>>),
      Anchor("", Url3, <<Node("", <<"a", " ", "EN", " ", "b">>)>>),
      Anchor("", Url4, <<Node("", <<" ">>)>>),
      Anchor("", NoSlugUrl, <<Node("", <<"a">>)>>),
      Anchor("", None, <<Node("", <<"a">>)>>) }

ListPages == SeqsUpTo(ListAnchors, MaxAnchors)

\* The search pages main() is served
MainAnchors ==
    { Anchor("mini_card", Url1,
             <<Node("mini_card-title", <<"a">>), Node("mini_card-subtitle", <<"b">>)>>),
      Anchor("", Url3, <<Node("", <<"a", " ", "EN", " ", "b">>)>>),
      Anchor("", ArtistUrl, <<Node("", <<"a">>)>>) }

SearchPages == SeqsUpTo(MainAnchors, MaxAnchors)

LyricsPage(containers, lyrics) == [containers |-> containers, lyrics |-> lyrics]

\* The song pages main() is served
SongPages ==
    { LyricsPage(<<>>, <<>>),
      LyricsPage(<< << <<"a">>, <<" ">>, <<"b", " ">> >>, << <<"\n">> >>, << <<"c">> >> >>,
                 << << <<"d">> >> >>),
      LyricsPage(<< << <<" ">> >> >>, << << <<" ", "d">>, <<"e">> >> >>) }

----------------------------------------------------------------------------
(* main() of the scraper actor *)

ScraperInit ==
    /\ raised = ""
    /\ search_query = None
    /\ max_songs = 0
    /\ proxy_url = None
    /\ search_html = <<>>
    /\ candidates = <<>>
    /\ ci = 0
    /\ sink = <<>>
    /\ gets = <<>>

AgentIdle ==
    /\ agent_artist = None
    /\ album_info = None
    /\ ti = 0
    /\ lyrics_results = <<>>
    /\ actor_calls = <<>>
    /\ report = None

Init ==
    /\ pc = "get_input"
    /\ ScraperInit
    /\ AgentIdle

\* Lines 136-144
ReadInput ==
    /\ pc = "get_input"
    /\ \E actor_input \in ActorInputs :
        LET v == max_songs_or_1(actor_input.maxSongs)
        IN  /\ search_query' = actor_input.searchQuery
            /\ IF int_raises(v)
               THEN /\ raised' = "ValueError"
                    /\ pc' = "done"
                    /\ UNCHANGED max_songs
               ELSE /\ max_songs' = int(v)
                    /\ IF actor_input.searchQuery \in {None, <<>>}
                       THEN raised' = "RuntimeError" /\ pc' = "done"
                       ELSE raised' = "" /\ pc' = "proxy"
    /\ UNCHANGED <<proxy_url, search_html, candidates, ci, sink, gets>>
    /\ UNCHANGED agentVars

\* Lines 147-157
CreateProxy ==
    /\ pc = "proxy"
    /\ \E outcome \in ProxyOutcomes :
        proxy_url' = IF outcome = "new_url" THEN ProxyUrl ELSE None
    /\ pc' = "fetch_search"
    /\ UNCHANGED <<raised, search_query, max_songs, search_html, candidates, ci, sink, gets>>
    /\ UNCHANGED agentVars

\* FetchSearch without the return of line 181: the handler falls through to
\* line 183, where search_html is unbound
FetchSearch_NoReturn ==
    /\ pc = "fetch_search"
    /\ \E resp \in Responses(SearchPages) :
        LET search_url == search_url_of(search_query)
            exc == fetch_html_sync(resp)
        IN  /\ gets' = Append(gets, Get(search_url, resp))
            /\ IF exc = ""
               THEN /\ search_html' = resp.text
                    /\ pc' = "parse"
                    /\ UNCHANGED <<raised, sink>>
               ELSE IF exc = "HTTPError"
               THEN /\ sink' = Append(sink, search_failure_record(
                                          search_query, search_url, resp.status_code))
                    /\ raised' = "UnboundLocalError"
                    /\ pc' = "done"
                    /\ UNCHANGED search_html
               ELSE /\ raised' = exc
                    /\ pc' = "done"
                    /\ UNCHANGED <<sink, search_html>>
    /\ UNCHANGED <<search_query, max_songs, proxy_url, candidates, ci>>
    /\ UNCHANGED agentVars

\* Lines 162-181
FetchSearch ==
    /\ pc = "fetch_search"
    /\ \E resp \in Responses(SearchPages) :
        LET search_url == search_url_of(search_query)
            exc == fetch_html_sync(resp)
        IN  /\ gets' = Append(gets, Get(search_url, resp))
            /\ IF exc = ""
               THEN /\ search_html' = resp.text
                    /\ pc' = "parse"
                    /\ UNCHANGED <<raised, sink>>
               ELSE IF exc = "HTTPError"
               THEN /\ sink' = Append(sink, search_failure_record(
                                          search_query, search_url, resp.status_code))
                    /\ pc' = "done"
                    /\ UNCHANGED <<raised, search_html>>
               ELSE /\ raised' = exc
                    /\ pc' = "done"
                    /\ UNCHANGED <<sink, search_html>>
    /\ UNCHANGED <<search_query, max_songs, proxy_url, candidates, ci>>
    /\ UNCHANGED agentVars

\* Lines 183-197
ParseSearch ==
    /\ pc = "parse"
    /\ candidates' = parse_search_results(search_html, max_songs)
    /\ IF candidates' = <<>>
       THEN /\ sink' = Append(sink, no_candidates_record(
                                  search_query, search_url_of(search_query)))
            /\ pc' = "done"
       ELSE /\ pc' = "for"
            /\ UNCHANGED sink
    /\ UNCHANGED <<raised, search_query, max_songs, proxy_url, search_html, ci, gets>>
    /\ UNCHANGED agentVars

\* FetchSong with a break after the record of a failed page
FetchSong_StopsAtFailure ==
    /\ pc = "for"
    /\ ci < Len(candidates)
    /\ \E resp \in Responses(SongPages) :
        LET c == candidates[ci + 1]
            exc == fetch_html_sync(resp)
        IN  /\ gets' = Append(gets, Get(c.url, resp))
            /\ IF exc \in {"", "HTTPError"}
               THEN /\ sink' = Append(sink, song_record(search_query, c, resp))
                    /\ ci' = ci + 1
                    /\ pc' = IF ci + 1 = Len(candidates) \/ exc = "HTTPError"
                             THEN "done" ELSE "for"
                    /\ UNCHANGED raised
               ELSE /\ raised' = exc
                    /\ pc' = "done"
                    /\ UNCHANGED <<sink, ci>>
    /\ UNCHANGED <<search_query, max_songs, proxy_url, search_html, candidates>>
    /\ UNCHANGED agentVars

\* Lines 200-230: one turn of the loop over the candidates
FetchSong ==
    /\ pc = "for"
    /\ ci < Len(candidates)
    /\ \E resp \in Responses(SongPages) :
        LET c == candidates[ci + 1]
            exc == fetch_html_sync(resp)
        IN  /\ gets' = Append(gets, Get(c.url, resp))
            /\ IF exc \in {"", "HTTPError"}
               THEN /\ sink' = Append(sink, song_record(search_query, c, resp))
                    /\ ci' = ci + 1
                    /\ pc' = IF ci + 1 = Len(candidates) THEN "done" ELSE "for"
                    /\ UNCHANGED raised
               ELSE /\ raised' = exc
                    /\ pc' = "done"
                    /\ UNCHANGED <<sink, ci>>
    /\ UNCHANGED <<search_query, max_songs, proxy_url, search_html, candidates>>
    /\ UNCHANGED agentVars

Next == ReadInput \/ CreateProxy \/ FetchSearch \/ ParseSearch \/ FetchSong

Spec == Init /\ [][Next]_vars

----------------------------------------------------------------------------
(* Properties of main() *)

\* str(status) of the statuses the model serves, written out
StatusText(status) ==
    CASE status = 403 -> "403" [] status = 404 -> "404" [] status = 500 -> "500"
      [] OTHER -> "?"

IsSongFailureRecord(r, c, status) ==
    /\ r.songTitle = c.song_title
    /\ r.artistName = c.artist_name
    /\ r.url = c.url
    /\ r.lyricsText = <<>>
    /\ r.error = <<"Failed to fetch song page (status=", StatusText(status), ")">>

OnlyHttpOutcomes == \A i \in 1..Len(gets) : gets[i].kind \in {"ok", "HTTPError"}

\* C1: every invocation of main() has pushed at least one record by the time
\* it ends, whatever the input and whatever the fetches did.
C1_AlwaysPushesARecord == pc = "done" => Len(sink) >= 1

\* C2: a candidate whose page fetch fails with an HTTP status error gets one
\* record with empty lyrics and the error "Failed to fetch song page
\* (status=<code>)", and the loop goes on: as long as fetches only succeed or
\* fail with a status, the loop never stops before the last candidate, and at
\* the end every candidate has been fetched and has its own record.
C2_StatusFailureIsolated ==
    /\ \A i \in 2..Len(gets) :
        gets[i].kind = "HTTPError" =>
            /\ Len(sink) >= i - 1
            /\ gets[i].url = candidates[i - 1].url
            /\ IsSongFailureRecord(sink[i - 1], candidates[i - 1], gets[i].status_code)
            /\ (Len(gets) = i /\ i - 1 < Len(candidates)) => (pc = "for" /\ ci = i - 1)
    /\ (pc = "for") => ci < Len(candidates)
    /\ (pc = "done" /\ candidates # <<>> /\ OnlyHttpOutcomes) =>
            /\ Len(gets) = Len(candidates) + 1
            /\ Len(sink) = Len(candidates)
            /\ \A j \in 1..Len(candidates) :
                /\ gets[j + 1].url = candidates[j].url
                /\ sink[j].url = candidates[j].url

\* C2 witness: the first of two candidates failed with 404, the second was
\* fetched all the same, and both have their record.
C2_Witness ==
    /\ pc = "done"
    /\ Len(candidates) = 2
    /\ Len(gets) = 3
    /\ gets[2].kind = "HTTPError" /\ gets[2].status_code = 404
    /\ gets[3].kind = "ok"
    /\ Len(sink) = 2
    /\ sink[2].error = None

\* C3: a fetch with no HTTP response (timeout, connection error) is handled as
\* a status failure is: no exception leaves main(); on the search page one
\* diagnostic record is pushed and the run ends; on a song page a record with
\* empty lyrics and an error is pushed.
C3_NoResponseHandledLikeStatus ==
    \A i \in 1..Len(gets) :
        gets[i].kind \in NoResponse =>
            /\ raised = ""
            /\ (i = 1) => (pc = "done" /\ Len(sink) = 1 /\ sink[1].error # None)
            /\ (i > 1) => /\ Len(sink) >= i - 1
                          /\ sink[i - 1].lyricsText = <<>>
                          /\ sink[i - 1].error # None

\* C4: with the search page fetched and n >= 1 candidates parsed, main() ends
\* with exactly n records, the i-th carrying the i-th candidate's url, title
\* and artist.
C4_OneRecordPerCandidate ==
    (pc = "done" /\ candidates # <<>>) =>
        /\ Len(sink) = Len(candidates)
        /\ \A j \in 1..Len(candidates) :
            /\ sink[j].url = candidates[j].url
            /\ sink[j].songTitle = candidates[j].song_title
            /\ sink[j].artistName = candidates[j].artist_name

IsDiagnosticRecord(r, error) ==
    r = [searchQuery |-> search_query, songTitle |-> None, artistName |-> None,
         url |-> <<"https://", "genius.com/", "search?q=", "a", "+", "b">>,
         lyricsText |-> <<>>, error |-> error]

\* C5: when the search fetch fails with an HTTP status, or no candidate is
\* found, exactly one record is pushed, with null title and artist, empty
\* lyrics and the error message, and the run is over: no song page is fetched
\* and nothing more is pushed.
C5_SearchFailureIsTerminal ==
    /\ (Len(gets) >= 1 /\ gets[1].kind = "HTTPError") =>
            /\ pc = "done" /\ raised = ""
            /\ Len(gets) = 1
            /\ Len(sink) = 1
            /\ IsDiagnosticRecord(sink[1],
                   <<"Failed to fetch search page (status=",
                     StatusText(gets[1].status_code), ")">>)
    /\ (pc \in {"for", "done"} /\ Len(gets) >= 1
            /\ gets[1].kind = "ok" /\ candidates = <<>>) =>
            /\ pc = "done" /\ raised = ""
            /\ Len(gets) = 1
            /\ Len(sink) = 1
            /\ IsDiagnosticRecord(sink[1], <<"No candidates found on Genius search page">>)

\* C5 witness: the search page came back 403 and the run ended.
C5_Witness ==
    /\ pc = "done"
    /\ Len(gets) = 1
    /\ gets[1].kind = "HTTPError" /\ gets[1].status_code = 403
    /\ Len(sink) = 1

\* C6: every record in the sink that has an error has empty lyrics.
C6_ErrorImpliesNoLyrics ==
    \A i \in 1..Len(sink) : sink[i].error # None => sink[i].lyricsText = <<>>

\* C6 witness: the sink holds a record with lyrics and no error, and after it
\* the record of a song page that failed.
C6_Witness ==
    /\ Len(sink) = 2
    /\ sink[1].error = None /\ sink[1].lyricsText # <<>>
    /\ sink[2].error # None
    /\ gets[3].kind = "HTTPError"

----------------------------------------------------------------------------
(* parse_search_results on its own: every page and budget of the model *)

ParseInit ==
    /\ pc = "call"
    /\ raised = ""
    /\ search_query = None
    /\ proxy_url = None
    /\ candidates = <<>>
    /\ ci = 0
    /\ sink = <<>>
    /\ gets = <<>>
    /\ AgentIdle
    /\ \/ search_html \in DetailedPages /\ max_songs = 1
       \/ search_html \in ListPages /\ max_songs \in -1..MaxSongs

\* candidates = parse_search_results(search_html, max_songs)
ParseCall ==
    /\ pc = "call"
    /\ candidates' = parse_search_results(search_html, max_songs)
    /\ pc' = "returned"
    /\ UNCHANGED <<raised, search_query, max_songs, proxy_url, search_html, ci, sink, gets>>
    /\ UNCHANGED agentVars

SpecParse == ParseInit /\ [][ParseCall]_vars

----------------------------------------------------------------------------
(* Properties of parse_search_results *)

FlatText(a) == get_text(strings(a), <<" ">>)

\* An anchor that yields a candidate: its href is a lyric-page URL and its
\* flattened text is not empty
Qualifies(a) == a.href # None /\ LYRICS_URL_RE_match(a.href) /\ FlatText(a) # <<>>

QualifiesMini(a) == a.class = "mini_card" /\ Qualifies(a)

\* The qualifying anchors of the layout in use: the mini cards when one of
\* them qualifies, else all anchors
QualifyingInUse(html) ==
    IF SelectSeq(html, QualifiesMini) # <<>>
    THEN SelectSeq(html, QualifiesMini)
    ELSE SelectSeq(html, Qualifies)

Min(a, b) == IF a <= b THEN a ELSE b

FirstOf(cands, anchors, n) ==
    /\ Len(cands) = Min(n, Len(anchors))
    /\ \A i \in 1..Len(cands) : cands[i].url = anchors[i].href

\* C7 as stated: for every page and every max_songs the result has at most
\* max_songs candidates and is the first min(max_songs, k) qualifying anchors
\* of the layout in use, in page order.
C7_AtMostMaxSongs ==
    pc = "returned" =>
        /\ Len(candidates) <= max_songs
        /\ \/ max_songs < 0
           \/ FirstOf(candidates, QualifyingInUse(search_html), max_songs)

\* C7 amended: for every page and every max_songs >= 0 the result has at most
\* max_songs candidates and is the first min(max_songs, k) qualifying anchors
\* of the layout in use, in page order; for max_songs < 0 it is empty.
C7_AtMostMaxSongsNonNegative ==
    pc = "returned" =>
        /\ max_songs >= 0 =>
            /\ Len(candidates) <= max_songs
            /\ FirstOf(candidates, QualifyingInUse(search_html), max_songs)
        /\ max_songs < 0 => candidates = <<>>

\* C7 witness: a page with more qualifying mini cards than the budget, an
\* anchor with a non-matching href before them, cut to the budget.
C7_Witness ==
    /\ pc = "returned"
    /\ max_songs = 1
    /\ Len(search_html) = 3
    /\ search_html[1].class = "mini_card" /\ search_html[1].href = ArtistUrl
    /\ Len(QualifyingInUse(search_html)) = 2
    /\ Len(candidates) = 1
    /\ candidates[1].url = search_html[2].href

\* C8: every candidate parse_search_results returns has a non-empty song_title.
C8_TitleNonEmpty ==
    pc = "returned" => \A i \in 1..Len(candidates) : candidates[i].song_title # <<>>

\* C8 witness: a mini card without a title element, its title split off the
\* flattened text and stripped.
C8_Witness ==
    /\ pc = "returned"
    /\ Len(search_html) = 1
    /\ search_html[1].class = "mini_card"
    /\ select_one(search_html[1], "mini_card-title") = <<>>
    /\ FlatText(search_html[1]) = <<"a", " ", " ", "EN", " ", "b">>
    /\ Len(candidates) = 1
    /\ candidates[1].song_title = <<"a">>

\* The text of the first child of the class, stripped; empty when there is none
SubText(a, class) ==
    IF \E i \in 1..Len(a.children) : a.children[i].class = class
    THEN strip((select_one(a, class)[1]).text)
    ELSE <<>>

\* Title and artist split off the flattened text: en-dash first, else hyphen,
\* else the whole text with the given artist
SplitOf(text, artist) ==
    IF \E i \in 1..(Len(text) - 2) : SubSeq(text, i, i + 2) = EnDashSep
    THEN LET i == CHOOSE i \in 1..(Len(text) - 2) :
                    /\ SubSeq(text, i, i + 2) = EnDashSep
                    /\ \A j \in 1..(i - 1) : SubSeq(text, j, j + 2) # EnDashSep
         IN  <<strip(SubSeq(text, 1, i - 1)), strip(SubSeq(text, i + 3, Len(text)))>>
    ELSE IF \E i \in 1..(Len(text) - 2) : SubSeq(text, i, i + 2) = HyphenSep
    THEN LET i == CHOOSE i \in 1..(Len(text) - 2) :
                    /\ SubSeq(text, i, i + 2) = HyphenSep
                    /\ \A j \in 1..(i - 1) : SubSeq(text, j, j + 2) # HyphenSep
         IN  <<strip(SubSeq(text, 1, i - 1)), strip(SubSeq(text, i + 3, Len(text)))>>
    ELSE <<strip(text), strip(artist)>>

TitleArtist(c) == <<c.song_title, c.artist_name>>

MiniCardsInUse(html) == SelectSeq(html, QualifiesMini)

\* C10 as stated: in the mini-card layout, when the title element or the
\* subtitle element is absent or empty, title and artist are split off the
\* anchor's flattened text (en-dash, else hyphen, else whole text and empty
\* artist).
C10_FallbackWhenEitherMissing ==
    (pc = "returned" /\ max_songs >= 1) =>
        \A i \in 1..Len(candidates) :
            LET a == MiniCardsInUse(search_html)[i]
            IN  (i <= Len(MiniCardsInUse(search_html))
                 /\ (SubText(a, "mini_card-title") = <<>>
                     \/ SubText(a, "mini_card-subtitle") = <<>>)) =>
                    TitleArtist(candidates[i]) = SplitOf(FlatText(a), <<>>)

\* C10 amended: in the mini-card layout, when the title element is absent or
\* empty, title and artist are split off the anchor's flattened text (en-dash
\* first, else hyphen, else the whole text is the title and the artist is the
\* subtitle element's text, empty when there is none); when the title element
\* has text, the title is that text and the artist the subtitle element's
\* text, empty when it is absent or empty, with no fallback.
C10_FallbackWhenTitleMissing ==
    (pc = "returned" /\ max_songs >= 1) =>
        \A i \in 1..Len(candidates) :
            LET a == MiniCardsInUse(search_html)[i]
            IN  i <= Len(MiniCardsInUse(search_html)) =>
                    TitleArtist(candidates[i]) =
                        IF SubText(a, "mini_card-title") = <<>>
                        THEN SplitOf(FlatText(a), SubText(a, "mini_card-subtitle"))
                        ELSE <<SubText(a, "mini_card-title"),
                               SubText(a, "mini_card-subtitle")>>

\* C10 witness: a mini card with no title element whose text holds both
\* separators, split at the en-dash.
C10_Witness ==
    /\ pc = "returned"
    /\ Len(search_html) = 1
    /\ search_html[1].class = "mini_card"
    /\ SubText(search_html[1], "mini_card-title") = <<>>
    /\ FlatText(search_html[1]) =
           <<"a", " ", "-", " ", "a", " ", " ", "EN", " ", "b">>
    /\ Len(candidates) = 1
    /\ candidates[1].song_title = <<"a", " ", "-", " ", "a">>
    /\ candidates[1].artist_name = <<"b">>

----------------------------------------------------------------------------
(* build_agent_output() of the album pipeline (main.py) *)

\* A JSON value of the model: a string, an integer or null
JsonStr(s) == [type |-> "str", val |-> s]
JsonInt(n) == [type |-> "int", val |-> n]
Null == [type |-> "NoneType"]

DigitChar(d) ==
    CASE d = 0 -> "0" [] d = 1 -> "1" [] d = 2 -> "2" [] d = 3 -> "3"
      [] d = 4 -> "4" [] d = 5 -> "5" [] d = 6 -> "6" [] d = 7 -> "7"
      [] d = 8 -> "8" [] OTHER -> "9"

RECURSIVE digits_of(_)
digits_of(n) ==
    IF n < 10 THEN <<DigitChar(n)>>
    ELSE Append(digits_of(n \div 10), DigitChar(n % 10))

\* str(t) of a JSON value
str_of(t) ==
    CASE t.type = "str" -> t.val
      [] t.type = "int" -> IF t.val < 0 THEN <<"-">> \o digits_of(-t.val)
                           ELSE digits_of(t.val)
      [] OTHER -> <<"N", "o", "n", "e">>

TrackSamples ==
    {JsonStr(<<>>), JsonStr(<<" ">>), JsonStr(<<" ", "a", " ">>), JsonInt(7), Null}

ArtistFieldSamples == {None, <<" ">>, <<"Q", " ">>}

\* What call_apify_actor(YOUTUBE_ACTOR_ID, ...) can do
YoutubeOutcomes ==
    {[kind |-> "raises", exc |-> e, items |-> <<>>] : e \in {"HTTPError", "Timeout"}}
    \cup {[kind |-> "returns", exc |-> "", items |-> <<>>]}
    \cup {[kind |-> "returns", exc |-> "",
           items |-> <<[channelTitle |-> a, channelName |-> b,
                        uploader |-> c, author |-> d]>>] :
            a \in ArtistFieldSamples, b \in ArtistFieldSamples,
            c \in ArtistFieldSamples, d \in ArtistFieldSamples}

Truthy(s) == s # None /\ s # <<>>

\* Lines 87-93
artist_of(first) ==
    strip(IF Truthy(first.channelTitle) THEN first.channelTitle
          ELSE IF Truthy(first.channelName) THEN first.channelName
          ELSE IF Truthy(first.uploader) THEN first.uploader
          ELSE IF Truthy(first.author) THEN first.author
          ELSE <<>>)

\* What call_ollama_json(prompt) can do: raise, or return a JSON object that
\* may lack a tracks list
LlmOutcomes ==
    {[kind |-> "raises", exc |-> e, has_tracks |-> FALSE, tracks |-> <<>>] :
        e \in {"HTTPError", "RuntimeError"}}
    \cup {[kind |-> "returns", exc |-> "", has_tracks |-> FALSE, tracks |-> <<>>]}
    \cup {[kind |-> "returns", exc |-> "", has_tracks |-> TRUE, tracks |-> t] :
            t \in SeqsUpTo(TrackSamples, MaxTracks)}

ItemLyrics == [url |-> Url1, lyricsText |-> <<"l", "a">>, error |-> None]
ItemFailed ==
    [url |-> <<"https://", "genius.com/", "search?q=", "b">>, lyricsText |-> None,
     error |-> <<"No candidates found on Genius search page">>]

\* What call_apify_actor(GENIUS_ACTOR_ID, payload) can do
GeniusOutcomes ==
    {[kind |-> "raises", exc |-> e, items |-> <<>>] : e \in {"HTTPError", "Timeout"}}
    \cup {[kind |-> "returns", exc |-> "", items |-> i] :
            i \in {<<>>, <<ItemLyrics>>, <<ItemFailed, ItemLyrics>>}}

\* Lines 150-183
fetch_lyrics_from_genius(song_title, outcome) ==
    IF outcome.kind = "raises"
    THEN [song_title |-> song_title, genius_url |-> None, lyrics_raw |-> <<>>,
          error |-> <<"Apify call failed: ", outcome.exc>>]
    ELSE IF outcome.items = <<>>
    THEN [song_title |-> song_title, genius_url |-> None, lyrics_raw |-> <<>>,
          error |-> <<"No items returned from genius-free-lyrics actor">>]
    ELSE LET item == outcome.items[1]
         IN  [song_title |-> song_title,
              genius_url |-> item.url,
              lyrics_raw |-> IF Truthy(item.lyricsText) THEN item.lyricsText ELSE <<>>,
              error |-> item.error]

AgentInit ==
    /\ pc = "youtube"
    /\ ScraperInit
    /\ AgentIdle

\* Line 192: get_artist_from_youtube
GetArtist ==
    /\ pc = "youtube"
    /\ \E outcome \in YoutubeOutcomes :
        IF outcome.kind = "raises"
        THEN raised' = outcome.exc /\ pc' = "done" /\ UNCHANGED agent_artist
        ELSE IF outcome.items = <<>> \/ artist_of(outcome.items[1]) = <<>>
        THEN raised' = "RuntimeError" /\ pc' = "done" /\ UNCHANGED agent_artist
        ELSE /\ agent_artist' = artist_of(outcome.items[1])
             /\ pc' = "llm"
             /\ UNCHANGED raised
    /\ UNCHANGED <<album_info, ti, lyrics_results, actor_calls, report>>
    /\ UNCHANGED scraperVars

\* Lines 195-203: get_first_album_from_llm
GetAlbum ==
    /\ pc = "llm"
    /\ \E outcome \in LlmOutcomes :
        IF outcome.kind = "raises"
        THEN raised' = outcome.exc /\ pc' = "done" /\ UNCHANGED album_info
        ELSE IF ~outcome.has_tracks
        THEN raised' = "RuntimeError" /\ pc' = "done" /\ UNCHANGED album_info
        ELSE /\ album_info' = [artist |-> <<"Q">>, album_title |-> <<"Q">>,
                               release_year |-> JsonInt(1973), tracks |-> outcome.tracks]
             /\ pc' = "tracks"
             /\ UNCHANGED raised
    /\ UNCHANGED <<agent_artist, ti, lyrics_results, actor_calls, report>>
    /\ UNCHANGED scraperVars

\* FetchTrack with the exception of call_apify_actor left uncaught
FetchTrack_Propagates ==
    /\ pc = "tracks"
    /\ ti < Len(album_info.tracks)
    /\ LET t_str == strip(str_of(album_info.tracks[ti + 1]))
       IN  IF t_str = <<>>
           THEN /\ ti' = ti + 1
                /\ UNCHANGED <<pc, raised, lyrics_results, actor_calls>>
           ELSE \E outcome \in GeniusOutcomes :
                /\ actor_calls' = Append(actor_calls,
                       [searchQuery |-> t_str \o <<" ">> \o agent_artist \o <<" ", "lyrics">>,
                        kind |-> outcome.kind])
                /\ IF outcome.kind = "raises"
                   THEN /\ raised' = outcome.exc
                        /\ pc' = "done"
                        /\ UNCHANGED <<ti, lyrics_results>>
                   ELSE /\ lyrics_results' =
                              Append(lyrics_results, fetch_lyrics_from_genius(t_str, outcome))
                        /\ ti' = ti + 1
                        /\ UNCHANGED <<pc, raised>>
    /\ UNCHANGED <<agent_artist, album_info, report>>
    /\ UNCHANGED scraperVars

\* Lines 205-211: one turn of the loop over the tracks
FetchTrack ==
    /\ pc = "tracks"
    /\ ti < Len(album_info.tracks)
    /\ LET t_str == strip(str_of(album_info.tracks[ti + 1]))
       IN  IF t_str = <<>>
           THEN UNCHANGED <<lyrics_results, actor_calls>>
           ELSE \E outcome \in GeniusOutcomes :
                /\ actor_calls' = Append(actor_calls,
                       [searchQuery |-> t_str \o <<" ">> \o agent_artist \o <<" ", "lyrics">>,
                        kind |-> outcome.kind])
                /\ lyrics_results' =
                       Append(lyrics_results, fetch_lyrics_from_genius(t_str, outcome))
    /\ ti' = ti + 1
    /\ UNCHANGED <<pc, raised, agent_artist, album_info, report>>
    /\ UNCHANGED scraperVars

\* Lines 213-222
Return ==
    /\ pc = "tracks"
    /\ ti = Len(album_info.tracks)
    /\ report' = [artist_from_youtube |-> agent_artist,
                  album |-> [artist |-> album_info.artist,
                             album_title |-> album_info.album_title,
                             release_year |-> album_info.release_year],
                  tracks |-> lyrics_results]
    /\ pc' = "done"
    /\ UNCHANGED <<raised, agent_artist, album_info, ti, lyrics_results, actor_calls>>
    /\ UNCHANGED scraperVars

AgentNext == GetArtist \/ GetAlbum \/ FetchTrack \/ Return

SpecAgent == AgentInit /\ [][AgentNext]_vars

----------------------------------------------------------------------------
(* Properties of build_agent_output() *)

IsBlank(t) == \A i \in 1..Len(str_of(t)) : str_of(t)[i] \in Whitespace

NotBlank(t) == ~IsBlank(t)

\* The tracks among the first n of the album that are not blank
NonBlankTracks(n) == SelectSeq(SubSeq(album_info.tracks, 1, n), NotBlank)

\* C9: a failed remote call for a track yields an entry with lyrics_raw "" and
\* an error, and never aborts the album: at every turn of the loop there is
\* one entry per non-blank track so far, in album order, and the report's
\* tracks are one entry per non-blank track of the album.
C9_ActorFailureIsolated ==
    /\ (pc = "tracks" \/ (pc = "done" /\ raised = "")) =>
        /\ Len(lyrics_results) = Len(NonBlankTracks(ti))
        /\ Len(actor_calls) = Len(lyrics_results)
        /\ \A i \in 1..Len(lyrics_results) :
            /\ lyrics_results[i].song_title = strip(str_of(NonBlankTracks(ti)[i]))
            /\ actor_calls[i].kind = "raises" =>
                /\ lyrics_results[i].lyrics_raw = <<>>
                /\ lyrics_results[i].error # None
        /\ pc = "done" => /\ ti = Len(album_info.tracks)
                          /\ report.tracks = lyrics_results
    /\ raised # "" => (actor_calls = <<>> /\ lyrics_results = <<>>)

\* C9 witness: an album whose first track's call failed, whose second track is
\* blank and whose third track's call returned lyrics; the report has two
\* entries.
C9_Witness ==
    /\ pc = "done"
    /\ raised = ""
    /\ Len(album_info.tracks) = 3
    /\ IsBlank(album_info.tracks[2])
    /\ Len(report.tracks) = 2
    /\ actor_calls[1].kind = "raises"
    /\ report.tracks[1].error # None
    /\ report.tracks[2].lyrics_raw = <<"l", "a">>

====
